---- MODULE Spec2Model ----
(***************************************************************************)
(* Decisive-Hiring (decihier.py): the WorkDNA scoring function             *)
(* psychology_predictor and the Flask handlers that resolve the question   *)
(* set a candidate is shown and scored against.                            *)
(*                                                                         *)
(* Two specifications share the definitions of the scoring code:           *)
(*   SpecScore  the scoring function applied to bounded answer lists       *)
(*   Spec       the handlers hr_create_test, login, logout,                *)
(*              start_assessment_page and assess over the process state    *)
(***************************************************************************)
EXTENDS Integers, Sequences, FiniteSets, TLC

VARIABLES
    GENERATED_TESTS,  \* test key -> [role, questions]
    TEST_RESULTS,     \* list of stored result entries
    session,          \* the candidate's Flask session
    page,             \* the page the candidate's browser was last sent
    response,         \* the response of /assess to the last request, if it was one
    request,          \* request.json of the last request, if it was to /assess
    locals,           \* its job_questions and accumulators on leaving the loop
    result            \* what it returned or raised (Pending: it was not called)

vars == <<GENERATED_TESTS, TEST_RESULTS, session, page, response,
          request, locals, result>>

flowVars == <<GENERATED_TESTS, TEST_RESULTS, session, page, response>>

(* data.get('jobKey') and data.get('answers') of a body that has both *)
job_key == request["jobKey"]
answers == request["answers"]

----------------------------------------------------------------------------
(* Bounds of the model *)

MaxAnswers == 3
MaxResults == 1

----------------------------------------------------------------------------
(* Python / JSON values *)

None == [t |-> "None"]
EmptyDict == << >>                  \* a dict is a function on the keys it has
JInt(n) == [t |-> "int", n |-> n]
JStr(s) == [t |-> "str", s |-> s]   \* s is a sequence of characters
JNull == [t |-> "null"]

PyList(l) == [t |-> "list", v |-> l]
(* not x, for x a list or None *)
Not(x) == x = None \/ x.v = << >>

Pending == [t |-> "pending"]   \* no call of psychology_predictor so far

NoExc == [exc |-> "none"]
KeyError(k) == [exc |-> "KeyError", key |-> k]

DigitVal == [c \in {"0", "1", "2", "3", "4", "5", "6", "7", "8", "9"} |->
               CASE c = "0" -> 0 [] c = "1" -> 1 [] c = "2" -> 2 [] c = "3" -> 3
                 [] c = "4" -> 4 [] c = "5" -> 5 [] c = "6" -> 6 [] c = "7" -> 7
                 [] c = "8" -> 8 [] c = "9" -> 9]

RECURSIVE DigitsValue(_, _)
DigitsValue(s, acc) ==
    IF s = << >> THEN acc ELSE DigitsValue(Tail(s), 10 * acc + DigitVal[Head(s)])

IsDigits(s) == Len(s) > 0 /\ \A i \in 1..Len(s) : s[i] \in DOMAIN DigitVal

(* int(x): an int is itself, a string is parsed as an optionally signed     *)
(* decimal literal (ValueError otherwise), None raises TypeError.           *)
PyInt(x) ==
    CASE x.t = "int" -> [exc |-> "none", val |-> x.n]
      [] x.t = "null" -> [exc |-> "TypeError", val |-> 0]
      [] x.t = "str" ->
           LET signed == Len(x.s) > 0 /\ Head(x.s) \in {"-", "+"}
               body == IF signed THEN Tail(x.s) ELSE x.s
           IN IF IsDigits(body)
              THEN [exc |-> "none",
                    val |-> IF signed /\ Head(x.s) = "-"
                            THEN 0 - DigitsValue(body, 0) ELSE DigitsValue(body, 0)]
              ELSE [exc |-> "ValueError", val |-> 0]

Max(a, b) == IF a >= b THEN a ELSE b
Min(a, b) == IF a <= b THEN a ELSE b

(* Ties of (n / d) * 100 that double arithmetic moves off the half: the     *)
(* product lands one ulp below (FloatTieLow) or above (FloatTieHigh) k + 0.5 *)
(* (denominators up to 60, |n| <= 150).                                     *)
FloatTieLow == {<<0 - 93, 40>>, <<0 - 49, 40>>, <<23, 40>>, <<51, 40>>, <<87, 40>>}
FloatTieHigh == {<<0 - 87, 40>>, <<0 - 51, 40>>, <<0 - 23, 40>>, <<49, 40>>, <<93, 40>>}

(* round((n / d) * 100) for d > 0: round half to even *)
PyRoundPct(n, d) ==
    LET q == (100 * n) \div d
        r == (100 * n) % d
    IN IF 2 * r < d THEN q
       ELSE IF 2 * r > d THEN q + 1
       ELSE IF <<n, d>> \in FloatTieLow THEN q
       ELSE IF <<n, d>> \in FloatTieHigh THEN q + 1
       ELSE IF q % 2 = 0 THEN q ELSE q + 1

----------------------------------------------------------------------------
(* Configuration *)

TraitKeys == {"TA", "SL", "ER", "BP", "BS"}

TRAIT_MAP == [TA |-> "Technical Acumen", SL |-> "Strategic Leadership",
              ER |-> "Ethical Responsibility", BP |-> "Business Profitability",
              BS |-> "Behavioral Speed"]

TIME_THRESHOLDS == [TOO_FAST |-> 15000, OPTIMAL_MIN |-> 30000,
                    OPTIMAL_MAX |-> 60000, TOO_SLOW |-> 60001]

(* questions.json as loaded: three job profiles, one of them without        *)
(* questions.  Option scores are maps from trait keys to integers; the file *)
(* is not validated, so a map may name BS or a key TRAIT_MAP does not have. *)
Q_dev1 == [id |-> "q1", prompt |-> "p-dev-1",
           options |-> << [text |-> "a", score |-> ("TA" :> 10)],
                          [text |-> "b", score |-> ("SL" :> 4 @@ "ER" :> (0 - 3) @@ "BS" :> 2)],
                          [text |-> "c", score |-> ("XX" :> 1)] >>]
Q_dev2 == [id |-> "q2", prompt |-> "p-dev-2",
           options |-> << [text |-> "a", score |-> ("BP" :> 12 @@ "TA" :> 5)] >>]
Q_ops1 == [id |-> "q1", prompt |-> "p-ops-1",
           options |-> << [text |-> "a", score |-> ("TA" :> 10)] >>]

ASSESSMENT_DATA ==
    [PASS_THRESHOLD |-> 75,
     JOB_PROFILES |->
        [dev |-> [skills_required |-> <<"TA", "BP">>, questions |-> <<Q_dev1, Q_dev2>>],
         ops |-> [skills_required |-> <<"TA">>, questions |-> <<Q_ops1>>],
         nil |-> [skills_required |-> << >>, questions |-> << >>]]]

Roles == DOMAIN ASSESSMENT_DATA.JOB_PROFILES

(* ASSESSMENT_DATA['JOB_PROFILES'].get(key) *)
ProfileGet(key) ==
    IF key \in Roles THEN ASSESSMENT_DATA.JOB_PROFILES[key] ELSE None

----------------------------------------------------------------------------
(* Process state *)

TestKeys == {"k1"}                  \* values of str(uuid.uuid4())[:6]

(* session.get(k, default) *)
SessionGet(s, k, default) == IF k \in DOMAIN s THEN s[k] ELSE default

(* d with d[k] = v *)
DictSet(d, k, v) == (k :> v) @@ d

(* d.pop(k, None) *)
DictPop(d, k) == [x \in DOMAIN d \ {k} |-> d[x]]

----------------------------------------------------------------------------
(* psychology_predictor *)

(* PredictorQuestions with the canonical profile looked up first *)
PredictorQuestions_ProfileFirst(sess, tests, key) ==
    IF ProfileGet(key) # None
    THEN PyList(ASSESSMENT_DATA.JOB_PROFILES[key].questions)
    ELSE IF "test_id" \in DOMAIN sess /\ sess["test_id"] \in DOMAIN tests
    THEN PyList(tests[sess["test_id"]].questions)
    ELSE None

(* lines 59-63: the question set the submission is scored against *)
PredictorQuestions(sess, tests, key) ==
    IF "test_id" \in DOMAIN sess /\ sess["test_id"] \in DOMAIN tests
    THEN PyList(tests[sess["test_id"]].questions)
    ELSE IF ProfileGet(key) # None
    THEN PyList(ASSESSMENT_DATA.JOB_PROFILES[key].questions)
    ELSE None

(* lines 68-81: the accumulators before the loop *)
InitialLocals ==
    [total_raw_score |-> 0,
     skill_scores |-> [k \in TraitKeys |-> 0],
     behavioral_summary |-> [fastResponses |-> 0, slowResponses |-> 0,
                             optimalResponses |-> 0, totalTimeMs |-> 0],
     detailed_results |-> << >>,
     max_possible_trait_score_base |-> 0,
     raised |-> NoExc]

(* lines 84-85: next((q for q in job_questions if q['id'] == qid), None) *)
FindQuestion(job_questions, qid) ==
    LET hits == {i \in 1..Len(job_questions) : job_questions[i].id = qid}
    IN IF hits = {} THEN None
       ELSE job_questions[CHOOSE i \in hits : \A j \in hits : i <= j]

(* TimeBehavior with "<=" for "<" at TOO_FAST *)
TimeBehavior_Inclusive(time_taken) ==
    IF time_taken <= TIME_THRESHOLDS.TOO_FAST
    THEN [time_score |-> 0 - 20,
          adjust |-> ("BS" :> 5 @@ "ER" :> (0 - 5) @@ "SL" :> (0 - 5)),
          counter |-> "fastResponses",
          time_behavior |-> "Too Fast (Lack of Contemplation)"]
    ELSE IF time_taken > TIME_THRESHOLDS.OPTIMAL_MAX
    THEN [time_score |-> 0 - 20,
          adjust |-> ("TA" :> (0 - 5) @@ "BS" :> (0 - 10)),
          counter |-> "slowResponses",
          time_behavior |-> "Too Slow (Inefficiency)"]
    ELSE IF TIME_THRESHOLDS.OPTIMAL_MIN <= time_taken /\ time_taken <= TIME_THRESHOLDS.OPTIMAL_MAX
    THEN [time_score |-> 5,
          adjust |-> ("BS" :> 5),
          counter |-> "optimalResponses",
          time_behavior |-> "Optimal"]
    ELSE [time_score |-> 0,
          adjust |-> EmptyDict,
          counter |-> "none",
          time_behavior |-> "Optimal"]

(* lines 111-133: time_score, the side adjustments of skill_scores, the     *)
(* counter incremented and time_behavior, for one time_taken                *)
TimeBehavior(time_taken) ==
    IF time_taken < TIME_THRESHOLDS.TOO_FAST
    THEN [time_score |-> 0 - 20,
          adjust |-> ("BS" :> 5 @@ "ER" :> (0 - 5) @@ "SL" :> (0 - 5)),
          counter |-> "fastResponses",
          time_behavior |-> "Too Fast (Lack of Contemplation)"]
    ELSE IF time_taken > TIME_THRESHOLDS.OPTIMAL_MAX
    THEN [time_score |-> 0 - 20,
          adjust |-> ("TA" :> (0 - 5) @@ "BS" :> (0 - 10)),
          counter |-> "slowResponses",
          time_behavior |-> "Too Slow (Inefficiency)"]
    ELSE IF TIME_THRESHOLDS.OPTIMAL_MIN <= time_taken /\ time_taken <= TIME_THRESHOLDS.OPTIMAL_MAX
    THEN [time_score |-> 5,
          adjust |-> ("BS" :> 5),
          counter |-> "optimalResponses",
          time_behavior |-> "Optimal"]
    ELSE [time_score |-> 0,
          adjust |-> EmptyDict,
          counter |-> "none",
          time_behavior |-> "Optimal"]

At(d, k) == IF k \in DOMAIN d THEN d[k] ELSE 0

SumOver(d) ==
    LET RECURSIVE Sum(_)
        Sum(S) == IF S = {} THEN 0
                  ELSE LET k == CHOOSE x \in S : TRUE IN d[k] + Sum(S \ {k})
    IN Sum(DOMAIN d)

(* Accumulate with "total_raw_score = ..." for "total_raw_score += ..." *)
Accumulate_Assign(acc, answer, question, option, time_taken) ==
    LET option_score == option.score
        tb == TimeBehavior(time_taken)
        question_points == SumOver(option_score)
    IN IF ~(DOMAIN option_score \subseteq TraitKeys)
       THEN [acc EXCEPT
               !.behavioral_summary.totalTimeMs = @ + time_taken,
               !.raised = KeyError(CHOOSE k \in DOMAIN option_score : k \notin TraitKeys)]
       ELSE [acc EXCEPT
               !.behavioral_summary =
                   [c \in DOMAIN @ |->
                       @[c] + (IF c = "totalTimeMs" THEN time_taken ELSE 0)
                            + (IF c = tb.counter THEN 1 ELSE 0)],
               !.skill_scores =
                   [k \in TraitKeys |-> @[k] + At(option_score, k) + At(tb.adjust, k)],
               !.total_raw_score = question_points + tb.time_score,
               !.detailed_results =
                   Append(@, [questionId |-> answer["questionId"],
                              prompt |-> question.prompt,
                              chosenOptionText |-> option.text,
                              rawScoreImpact |-> option_score,
                              timeTakenMs |-> time_taken,
                              timeBehavior |-> tb.time_behavior,
                              traitMap |-> TRAIT_MAP])]

(* lines 102-145: a validated answer is added to the accumulators *)
Accumulate(acc, answer, question, option, time_taken) ==
    LET option_score == option.score
        tb == TimeBehavior(time_taken)
        question_points == SumOver(option_score)
    IN IF ~(DOMAIN option_score \subseteq TraitKeys)
       THEN [acc EXCEPT
               !.behavioral_summary.totalTimeMs = @ + time_taken,
               !.raised = KeyError(CHOOSE k \in DOMAIN option_score : k \notin TraitKeys)]
       ELSE [acc EXCEPT
               !.behavioral_summary =
                   [c \in DOMAIN @ |->
                       @[c] + (IF c = "totalTimeMs" THEN time_taken ELSE 0)
                            + (IF c = tb.counter THEN 1 ELSE 0)],
               !.skill_scores =
                   [k \in TraitKeys |-> @[k] + At(option_score, k) + At(tb.adjust, k)],
               !.total_raw_score = @ + (question_points + tb.time_score),
               !.detailed_results =
                   Append(@, [questionId |-> answer["questionId"],
                              prompt |-> question.prompt,
                              chosenOptionText |-> option.text,
                              rawScoreImpact |-> option_score,
                              timeTakenMs |-> time_taken,
                              timeBehavior |-> tb.time_behavior,
                              traitMap |-> TRAIT_MAP])]

(* LoopBody with the denominator incremented before the question lookup *)
LoopBody_CountAll(acc, answer, job_questions) ==
    IF "questionId" \notin DOMAIN answer
    THEN [acc EXCEPT !.raised = KeyError("questionId")]
    ELSE
    LET question == FindQuestion(job_questions, answer["questionId"])
    IN IF question = None
       THEN [acc EXCEPT !.max_possible_trait_score_base = @ + 10]
       ELSE
       LET acc1 == [acc EXCEPT !.max_possible_trait_score_base = @ + 10]
       IN IF "selectedOptionIndex" \notin DOMAIN answer
          THEN [acc1 EXCEPT !.raised = KeyError("selectedOptionIndex")]
          ELSE
          LET oi == PyInt(answer["selectedOptionIndex"])
          IN IF oi.exc # "none" THEN acc1
             ELSE IF "timeTakenMs" \notin DOMAIN answer
             THEN [acc1 EXCEPT !.raised = KeyError("timeTakenMs")]
             ELSE
             LET tt == PyInt(answer["timeTakenMs"])
             IN IF tt.exc # "none" THEN acc1
                ELSE IF 0 <= oi.val /\ oi.val < Len(question.options)
                THEN Accumulate(acc1, answer, question,
                                question.options[oi.val + 1], tt.val)
                ELSE acc1

(* LoopBody with the denominator incremented only for a validated answer *)
LoopBody_CountValid(acc, answer, job_questions) ==
    IF "questionId" \notin DOMAIN answer
    THEN [acc EXCEPT !.raised = KeyError("questionId")]
    ELSE
    LET question == FindQuestion(job_questions, answer["questionId"])
    IN IF question = None THEN acc
       ELSE
       LET acc1 == [acc EXCEPT !.max_possible_trait_score_base = @ + 10]
       IN IF "selectedOptionIndex" \notin DOMAIN answer
          THEN [acc1 EXCEPT !.raised = KeyError("selectedOptionIndex")]
          ELSE
          LET oi == PyInt(answer["selectedOptionIndex"])
          IN IF oi.exc # "none" THEN acc
             ELSE IF "timeTakenMs" \notin DOMAIN answer
             THEN [acc1 EXCEPT !.raised = KeyError("timeTakenMs")]
             ELSE
             LET tt == PyInt(answer["timeTakenMs"])
             IN IF tt.exc # "none" THEN acc
                ELSE IF 0 <= oi.val /\ oi.val < Len(question.options)
                THEN Accumulate(acc1, answer, question,
                                question.options[oi.val + 1], tt.val)
                ELSE acc

(* lines 84-145: one iteration of the loop over answers *)
LoopBody(acc, answer, job_questions) ==
    IF "questionId" \notin DOMAIN answer
    THEN [acc EXCEPT !.raised = KeyError("questionId")]
    ELSE
    LET question == FindQuestion(job_questions, answer["questionId"])
    IN IF question = None THEN acc
       ELSE
       LET acc1 == [acc EXCEPT !.max_possible_trait_score_base = @ + 10]
       IN IF "selectedOptionIndex" \notin DOMAIN answer
          THEN [acc1 EXCEPT !.raised = KeyError("selectedOptionIndex")]
          ELSE
          LET oi == PyInt(answer["selectedOptionIndex"])
          IN IF oi.exc # "none" THEN acc1
             ELSE IF "timeTakenMs" \notin DOMAIN answer
             THEN [acc1 EXCEPT !.raised = KeyError("timeTakenMs")]
             ELSE
             LET tt == PyInt(answer["timeTakenMs"])
             IN IF tt.exc # "none" THEN acc1
                ELSE IF 0 <= oi.val /\ oi.val < Len(question.options)
                THEN Accumulate(acc1, answer, question,
                                question.options[oi.val + 1], tt.val)
                ELSE acc1

(* lines 83-145: the loop; an exception that is not caught leaves it *)
RECURSIVE ScoringLoop(_, _, _)
ScoringLoop(acc, job_questions, rest) ==
    IF rest = << >> \/ acc.raised # NoExc THEN acc
    ELSE ScoringLoop(LoopBody(acc, Head(rest), job_questions), job_questions, Tail(rest))

(* Clamp without the lower bound *)
Clamp_NoFloor(v) == Min(100, v)

(* max(0, min(100, v)) *)
Clamp(v) == Max(0, Min(100, v))

(* NormalizedScore against 10 points per question *)
NormalizedScore_TenPerQuestion(total_raw_score, job_questions) ==
    Clamp(PyRoundPct(total_raw_score, Len(job_questions) * 10))

(* lines 148-153 *)
NormalizedScore(total_raw_score, job_questions) ==
    Clamp(PyRoundPct(total_raw_score, Len(job_questions) * 15))

(* NormalizedSkill with BS normalized like the other traits *)
NormalizedSkill_AllRatio(key, raw, max_possible_trait_score_base) ==
    Clamp(IF max_possible_trait_score_base > 0
          THEN PyRoundPct(raw, max_possible_trait_score_base)
          ELSE 0)

(* lines 156-166 *)
NormalizedSkill(key, raw, max_possible_trait_score_base) ==
    IF key # "BS"
    THEN Clamp(IF max_possible_trait_score_base > 0
               THEN PyRoundPct(raw, max_possible_trait_score_base)
               ELSE 0)
    ELSE Clamp(raw)

(* lines 168-178 *)
Report(acc, job_questions, sess, key) ==
    [totalScore |-> NormalizedScore(acc.total_raw_score, job_questions),
     skillScores |-> [k \in TraitKeys |->
                        NormalizedSkill(k, acc.skill_scores[k],
                                        acc.max_possible_trait_score_base)],
     behavioralSummary |-> acc.behavioral_summary,
     detailedResults |-> acc.detailed_results,
     jobTitle |-> key,
     candidateName |-> SessionGet(sess, "candidate_name", "N/A"),
     testId |-> SessionGet(sess, "test_id", "N/A"),
     passThreshold |-> ASSESSMENT_DATA.PASS_THRESHOLD,
     traitMap |-> TRAIT_MAP]

(* lines 59-145: job_questions and the accumulators when the function      *)
(* leaves the loop (acc = None: the loop was never entered)                 *)
PredictorLocals(sess, tests, key, answer_list) ==
    LET job_questions == PredictorQuestions(sess, tests, key)
    IN [job_questions |-> job_questions,
        acc |-> IF Not(job_questions) THEN None
                ELSE ScoringLoop(InitialLocals, job_questions.v, answer_list)]

(* lines 57-178: what the call returns (raised = NoExc) or raises *)
Predictor(sess, tests, key, answer_list) ==
    LET job_questions == PredictorQuestions(sess, tests, key)
    IN IF Not(job_questions)
       THEN [raised |-> NoExc, value |-> None]
       ELSE LET acc == ScoringLoop(InitialLocals, job_questions.v, answer_list)
            IN IF acc.raised # NoExc
               THEN [raised |-> acc.raised, value |-> None]
               ELSE [raised |-> NoExc,
                     value |-> Report(acc, job_questions.v, sess, key)]

psychology_predictor(key, answer_list) ==
    Predictor(session, GENERATED_TESTS, key, answer_list)

predictor_locals(key, answer_list) ==
    PredictorLocals(session, GENERATED_TESTS, key, answer_list)

----------------------------------------------------------------------------
(* Flask handlers *)

Names == {"", "ann"}                          \* request.form.get('name')
TestIds == {"", "test123", "bad"} \cup TestKeys \* request.form.get('test_id')
FormRoles == {"", "ghost"} \cup Roles          \* request.form.get('role')
JobKeys == {"ghost"} \cup Roles                \* <path:job_key>
ResultIds == {"r1"}                           \* values of str(uuid.uuid4())

(* request.json of /assess: a dict that may lack either key *)
Valid == ("questionId" :> "q1") @@ ("selectedOptionIndex" :> JInt(0))
            @@ ("timeTakenMs" :> JInt(45000))
BodyAnswers == {<< >>, <<Valid>>, <<DictPop(Valid, "questionId")>>}
Bodies ==
    {("jobKey" :> k) @@ ("answers" :> a) : k \in {""} \cup JobKeys, a \in BodyAnswers}
    \cup {("jobKey" :> k) : k \in {"dev"}}
    \cup {("answers" :> a) : a \in {<<Valid>>}}

(* a request that does not reach psychology_predictor *)
NoCall == locals' = Pending /\ result' = Pending

IndexPage == [status |-> 200, template |-> "index.html"]

(* lines 334-352, POST *)
hr_create_test(role, test_key) ==
    /\ IF role # "" /\ role \in Roles
       THEN GENERATED_TESTS' =
                DictSet(GENERATED_TESTS, test_key,
                        [role |-> role,
                         questions |-> ASSESSMENT_DATA.JOB_PROFILES[role].questions])
       ELSE UNCHANGED GENERATED_TESTS
    /\ response' = None
    /\ request' = EmptyDict
    /\ UNCHANGED <<TEST_RESULTS, session, page>>
    /\ NoCall

(* lines 197-217 *)
login(name, test_id) ==
    /\ IF name = "" \/ test_id = ""
       THEN UNCHANGED session
       ELSE IF test_id \notin DOMAIN GENERATED_TESTS /\ test_id # "test123"
       THEN UNCHANGED session
       ELSE session' =
               DictSet(DictSet(DictSet(session, "candidate_name", name),
                               "test_id", test_id),
                       "assigned_role",
                       IF test_id \in DOMAIN GENERATED_TESTS
                       THEN GENERATED_TESTS[test_id].role ELSE "")
    /\ page' = IndexPage
    /\ response' = None
    /\ request' = EmptyDict
    /\ UNCHANGED <<GENERATED_TESTS, TEST_RESULTS>>
    /\ NoCall

(* lines 220-223 *)
logout ==
    /\ session' = EmptyDict
    /\ page' = IndexPage
    /\ response' = None
    /\ request' = EmptyDict
    /\ UNCHANGED <<GENERATED_TESTS, TEST_RESULTS>>
    /\ NoCall

(* lines 249-258: the questions the page renders, None for the 404 *)
PageQuestions(sess, tests, key) ==
    IF "test_id" \in DOMAIN sess /\ sess["test_id"] \in DOMAIN tests
    THEN PyList(tests[sess["test_id"]].questions)
    ELSE IF ProfileGet(key) = None
    THEN None
    ELSE PyList(ProfileGet(key).questions)

(* lines 243-264 *)
start_assessment_page(key) ==
    /\ page' =
         IF "candidate_name" \notin DOMAIN session
         THEN [status |-> 302]
         ELSE LET questions == PageQuestions(session, GENERATED_TESTS, key)
              IN IF questions = None
                 THEN [status |-> 404, job_key |-> key]
                 ELSE [status |-> 200, job_key |-> key,
                       template |-> "candidate_test.html",
                       candidate_name |-> session["candidate_name"],
                       questions |-> questions.v]
    /\ response' = None
    /\ request' = EmptyDict
    /\ UNCHANGED <<GENERATED_TESTS, TEST_RESULTS, session>>
    /\ NoCall

(* lines 267-308 *)
assess(data, result_id) ==
    /\ Len(TEST_RESULTS) < MaxResults
    /\ request' = data
    /\ IF "candidate_name" \notin DOMAIN session
       THEN /\ response' = [status |-> 401]
            /\ NoCall
            /\ UNCHANGED <<TEST_RESULTS, session>>
       ELSE IF \/ "jobKey" \notin DOMAIN data \/ data["jobKey"] = ""
               \/ "answers" \notin DOMAIN data \/ data["answers"] = << >>
       THEN /\ response' = [status |-> 400]
            /\ NoCall
            /\ UNCHANGED <<TEST_RESULTS, session>>
       ELSE LET results == psychology_predictor(data["jobKey"], data["answers"])
            IN /\ locals' = predictor_locals(data["jobKey"], data["answers"])
               /\ result' = results
               /\ IF results.raised # NoExc
                  THEN /\ response' = [status |-> 500, error |-> results.raised]
                       /\ UNCHANGED <<TEST_RESULTS, session>>
                  ELSE IF results.value = None
                  THEN /\ response' = [status |-> 404]
                       /\ UNCHANGED <<TEST_RESULTS, session>>
                  ELSE /\ TEST_RESULTS' =
                            Append(TEST_RESULTS,
                                   [id |-> result_id,
                                    username |-> results.value.candidateName,
                                    score |-> results.value.totalScore,
                                    role |-> results.value.jobTitle,
                                    submitted_at |-> Len(TEST_RESULTS) + 1,
                                    full_results |-> results.value])
                       /\ session' =
                            DictPop(DictPop(DictPop(
                                DictSet(session, "last_result_id", result_id),
                                "candidate_name"), "test_id"), "assigned_role")
                       /\ response' = [status |-> 200, redirect_url |-> "/thankyou"]
    /\ UNCHANGED <<GENERATED_TESTS, page>>

Init ==
    /\ GENERATED_TESTS = EmptyDict
    /\ TEST_RESULTS = << >>
    /\ session = EmptyDict
    /\ page = None
    /\ response = None
    /\ request = EmptyDict
    /\ locals = Pending
    /\ result = Pending

Next ==
    \/ \E role \in FormRoles, test_key \in TestKeys : hr_create_test(role, test_key)
    \/ \E name \in Names, test_id \in TestIds : login(name, test_id)
    \/ logout
    \/ \E key \in JobKeys : start_assessment_page(key)
    \/ \E data \in Bodies, result_id \in ResultIds : assess(data, result_id)

Spec == Init /\ [][Next]_vars

----------------------------------------------------------------------------
(* SpecScore: psychology_predictor applied to bounded inputs *)

ScoreKeys == {"dev", "ops"}

Times == {14999, 15000, 29999, 30000, 45000, 60000, 60001}

Answer(qid, index, time) ==
    ("questionId" :> qid) @@ ("selectedOptionIndex" :> index) @@ ("timeTakenMs" :> time)

(* the answer elements a request body is drawn from *)
AnswerSet ==
    {Answer("q1", JInt(0), JInt(t)) : t \in Times}
    \cup {Answer("q1", JInt(1), JInt(45000)),
          Answer("q2", JStr(<<"0">>), JStr(<<"6", "0", "0", "0", "1">>)),
          Answer("zz", JInt(0), JInt(45000)),
          Answer("q1", JInt(3), JInt(45000)),
          Answer("q1", JInt(0 - 1), JInt(45000)),
          Answer("q1", JStr(<<"x">>), JInt(45000)),
          Answer("q1", JInt(0), JNull),
          Answer("q1", JInt(2), JInt(45000)),
          DictPop(Answer("q1", JInt(0), JInt(45000)), "questionId"),
          DictPop(Answer("q1", JInt(0), JInt(45000)), "selectedOptionIndex"),
          DictPop(Answer("q1", JInt(0), JInt(45000)), "timeTakenMs")}

Candidate == ("candidate_name" :> "ann") @@ ("test_id" :> "test123")
                @@ ("assigned_role" :> "")

InitScore ==
    /\ GENERATED_TESTS = EmptyDict
    /\ TEST_RESULTS = << >>
    /\ session = Candidate
    /\ page = None
    /\ response = None
    /\ \E key \in ScoreKeys : request = ("jobKey" :> key) @@ ("answers" :> << >>)
    /\ locals = Pending
    /\ result = Pending

(* the client adds one answer to the request body *)
AddAnswer(a) ==
    /\ result = Pending
    /\ Len(answers) < MaxAnswers
    /\ request' = [request EXCEPT !["answers"] = Append(@, a)]
    /\ UNCHANGED <<locals, result>>
    /\ UNCHANGED flowVars

(* results = psychology_predictor(job_key, answers) *)
Score ==
    /\ result = Pending
    /\ result' = psychology_predictor(job_key, answers)
    /\ locals' = predictor_locals(job_key, answers)
    /\ UNCHANGED request
    /\ UNCHANGED flowVars

NextScore ==
    \/ \E a \in AnswerSet : AddAnswer(a)
    \/ Score

SpecScore == InitScore /\ [][NextScore]_vars

----------------------------------------------------------------------------
(* Properties of psychology_predictor, checked under SpecScore *)

(* the call returned a report *)
Returned == result # Pending /\ result.raised = NoExc /\ result.value # None

(* the question set the call resolved *)
QuestionSet == locals.job_questions.v

RemoveAt(seq, i) == SubSeq(seq, 1, i - 1) \o SubSeq(seq, i + 1, Len(seq))

RECURSIVE SumSeq(_)
SumSeq(seq) == IF seq = << >> THEN 0 ELSE Head(seq) + SumSeq(Tail(seq))

Clamp0to100(v) == IF v < 0 THEN 0 ELSE IF v > 100 THEN 100 ELSE v

(* the answer names a question of the set *)
Matches(qs, a) ==
    "questionId" \in DOMAIN a /\ \E i \in 1..Len(qs) : qs[i].id = a["questionId"]

QuestionOf(qs, a) == qs[CHOOSE i \in 1..Len(qs) : qs[i].id = a["questionId"]]

Parses(a, k) == k \in DOMAIN a /\ PyInt(a[k]).exc = "none"
IntOf(a, k) == PyInt(a[k]).val

(* the answer passes validation: a question of the set, two integers, an   *)
(* index of one of the question's options                                   *)
Passes(qs, a) ==
    /\ Matches(qs, a)
    /\ Parses(a, "selectedOptionIndex")
    /\ Parses(a, "timeTakenMs")
    /\ IntOf(a, "selectedOptionIndex") \in 0..(Len(QuestionOf(qs, a).options) - 1)

ChosenOption(qs, a) == QuestionOf(qs, a).options[IntOf(a, "selectedOptionIndex") + 1]

(* the timing classes as the specification lists them *)
SpecTiming(t) ==
    IF t < 15000
    THEN [label |-> "Too Fast (Lack of Contemplation)", adjustment |-> 0 - 20,
          TA |-> 0, SL |-> 0 - 5, ER |-> 0 - 5, BP |-> 0, BS |-> 5,
          fastResponses |-> 1, slowResponses |-> 0, optimalResponses |-> 0]
    ELSE IF t < 30000
    THEN [label |-> "Optimal", adjustment |-> 0,
          TA |-> 0, SL |-> 0, ER |-> 0, BP |-> 0, BS |-> 0,
          fastResponses |-> 0, slowResponses |-> 0, optimalResponses |-> 0]
    ELSE IF t <= 60000
    THEN [label |-> "Optimal", adjustment |-> 5,
          TA |-> 0, SL |-> 0, ER |-> 0, BP |-> 0, BS |-> 5,
          fastResponses |-> 0, slowResponses |-> 0, optimalResponses |-> 1]
    ELSE [label |-> "Too Slow (Inefficiency)", adjustment |-> 0 - 20,
          TA |-> 0 - 5, SL |-> 0, ER |-> 0, BP |-> 0, BS |-> 0 - 10,
          fastResponses |-> 0, slowResponses |-> 1, optimalResponses |-> 0]

(* C1: every report has 0 <= totalScore <= 100 and 0 <= skillScores[t] <= 100 *)
(* for each of the five traits, whatever the answer list.                   *)
C1_ScoresInRange ==
    Returned =>
        /\ result.value.totalScore \in 0..100
        /\ \A k \in TraitKeys : result.value.skillScores[k] \in 0..100

(* a report whose raw total is above the maximum and a raw trait total below 0 *)
C1_Witness ==
    /\ Returned
    /\ locals.acc.total_raw_score > 15 * Len(QuestionSet)
    /\ \E k \in TraitKeys : locals.acc.skill_scores[k] < 0

(* C3: once a non-empty question set is resolved the call never raises: a   *)
(* report is returned for every answer list.                                *)
C3_NeverRaises ==
    (result # Pending /\ QuestionSet # << >>) => result.raised = NoExc

DetailKeys(details) ==
    [i \in 1..Len(details) |->
        <<details[i].questionId, details[i].timeTakenMs, details[i].chosenOptionText>>]

ExpectedDetailKeys(qs, answer_list) ==
    LET passed == SelectSeq(answer_list, LAMBDA a : Passes(qs, a))
    IN [i \in 1..Len(passed) |->
          <<passed[i]["questionId"], IntOf(passed[i], "timeTakenMs"),
            ChosenOption(qs, passed[i]).text>>]

Swapped(seq, i, j) ==
    [k \in 1..Len(seq) |-> IF k = i THEN seq[j] ELSE IF k = j THEN seq[i] ELSE seq[k]]

(* C4: scoring a permutation of the answer list gives the same totalScore   *)
(* and skillScores; detailedResults lists the answers that passed           *)
(* validation in their input order.  Stated for the exchange of any two     *)
(* answers: every list of the model is such a state, and every permutation  *)
(* is a product of exchanges.                                               *)
C4_PermutationInvariant ==
    Returned =>
        /\ DetailKeys(result.value.detailedResults)
               = ExpectedDetailKeys(QuestionSet, answers)
        /\ \A i, j \in 1..Len(answers) :
             i < j =>
                LET other == psychology_predictor(job_key, Swapped(answers, i, j))
                IN /\ other.raised = NoExc
                   /\ other.value # None
                   /\ other.value.totalScore = result.value.totalScore
                   /\ other.value.skillScores = result.value.skillScores
                   /\ other.value.behavioralSummary = result.value.behavioralSummary

(* three answers, two of them valid and different, the first one skipped *)
C4_Witness ==
    /\ Returned
    /\ Len(answers) = 3
    /\ ~Passes(QuestionSet, answers[1])
    /\ Len(result.value.detailedResults) = 2
    /\ result.value.detailedResults[1] # result.value.detailedResults[2]
    /\ result.value.totalScore > 0

(* C5: an answer whose questionId matches no question changes nothing:      *)
(* without it the report, the counters, the denominator and                 *)
(* detailedResults are the same.                                            *)
C5_UnmatchedIgnored ==
    result # Pending =>
        \A i \in 1..Len(answers) :
            ("questionId" \in DOMAIN answers[i] /\ ~Matches(QuestionSet, answers[i])) =>
                /\ psychology_predictor(job_key, RemoveAt(answers, i)) = result
                /\ predictor_locals(job_key, RemoveAt(answers, i)) = locals

(* an unmatched answer between two valid ones *)
C5_Witness ==
    /\ Returned
    /\ Len(answers) = 3
    /\ "questionId" \in DOMAIN answers[2] /\ ~Matches(QuestionSet, answers[2])
    /\ Len(result.value.detailedResults) = 2

(* a matched answer that fails validation without raising *)
Degraded(qs, a) ==
    /\ Matches(qs, a)
    /\ "selectedOptionIndex" \in DOMAIN a
    /\ \/ ~Parses(a, "selectedOptionIndex")
       \/ /\ "timeTakenMs" \in DOMAIN a
          /\ \/ ~Parses(a, "timeTakenMs")
             \/ IntOf(a, "selectedOptionIndex")
                    \notin 0..(Len(QuestionOf(qs, a).options) - 1)

(* C6: a matched answer whose index or time does not parse, or whose index  *)
(* is out of range, adds exactly 10 to the denominator and nothing to the   *)
(* raw totals, totalTimeMs, the counters or detailedResults.                *)
C6_DegradedCountsInBase ==
    Returned =>
        \A i \in 1..Len(answers) :
            Degraded(QuestionSet, answers[i]) =>
                LET without == predictor_locals(job_key, RemoveAt(answers, i)).acc
                IN locals.acc =
                     [without EXCEPT !.max_possible_trait_score_base = @ + 10]

(* an unparsable time, an out-of-range index and a valid answer *)
C6_Witness ==
    /\ Returned
    /\ Len(answers) = 3
    /\ Degraded(QuestionSet, answers[1]) /\ ~Parses(answers[1], "timeTakenMs")
    /\ Degraded(QuestionSet, answers[2]) /\ Parses(answers[2], "selectedOptionIndex")
    /\ Parses(answers[2], "timeTakenMs")
    /\ Passes(QuestionSet, answers[3])
    /\ locals.acc.max_possible_trait_score_base = 30

(* C7: the effect of a valid answer is the one of its timing class:         *)
(* t < 15000 TooFast, 15000 <= t < 30000 the gap, 30000 <= t <= 60000       *)
(* Optimal, t > 60000 TooSlow.                                              *)
C7_TimingClasses ==
    Returned =>
        \A i \in 1..Len(answers) :
            Passes(QuestionSet, answers[i]) =>
                LET t == IntOf(answers[i], "timeTakenMs")
                    score == ChosenOption(QuestionSet, answers[i]).score
                    class == SpecTiming(t)
                    before == predictor_locals(job_key, RemoveAt(answers, i)).acc
                    after == locals.acc
                    rank == Cardinality({j \in 1..i : Passes(QuestionSet, answers[j])})
                IN /\ after.total_raw_score - before.total_raw_score
                        = SumOver(score) + class.adjustment
                   /\ \A k \in TraitKeys :
                        after.skill_scores[k] - before.skill_scores[k]
                            = At(score, k) + class[k]
                   /\ \A c \in {"fastResponses", "slowResponses", "optimalResponses"} :
                        after.behavioral_summary[c] - before.behavioral_summary[c]
                            = class[c]
                   /\ after.behavioral_summary.totalTimeMs
                        - before.behavioral_summary.totalTimeMs = t
                   /\ after.detailed_results[rank].timeBehavior = class.label

(* valid answers at 14999, 15000 and 60001 ms *)
C7_Witness ==
    /\ Returned
    /\ Len(answers) = 3
    /\ \A i \in 1..3 : Passes(QuestionSet, answers[i])
    /\ IntOf(answers[1], "timeTakenMs") = 14999
    /\ IntOf(answers[2], "timeTakenMs") = 15000
    /\ IntOf(answers[3], "timeTakenMs") = 60001

(* valid answers at 29999, 30000 and 60000 ms *)
C7_WitnessOptimal ==
    /\ Returned
    /\ Len(answers) = 3
    /\ \A i \in 1..3 : Passes(QuestionSet, answers[i])
    /\ IntOf(answers[1], "timeTakenMs") = 29999
    /\ IntOf(answers[2], "timeTakenMs") = 30000
    /\ IntOf(answers[3], "timeTakenMs") = 60000

TimingTermsBS(qs, answer_list) ==
    [i \in 1..Len(answer_list) |->
        IF Passes(qs, answer_list[i])
        THEN SpecTiming(IntOf(answer_list[i], "timeTakenMs")).BS ELSE 0]

OptionTermsBS(qs, answer_list) ==
    [i \in 1..Len(answer_list) |->
        IF Passes(qs, answer_list[i])
        THEN At(ChosenOption(qs, answer_list[i]).score, "BS") ELSE 0]

(* C9 as stated: skillScores.BS is the sum of the timing adjustments to BS  *)
(* over the valid answers, clamped to [0, 100], and nothing else.           *)
C9_OnlyTiming ==
    Returned =>
        result.value.skillScores["BS"]
            = Clamp0to100(SumSeq(TimingTermsBS(QuestionSet, answers)))

(* C9 amended: skillScores.BS is the sum over the valid answers of the BS   *)
(* points of the chosen option and the timing adjustment to BS, clamped to  *)
(* [0, 100] and not divided by the denominator.                             *)
C9_TimingAndOptionPoints ==
    Returned =>
        result.value.skillScores["BS"]
            = Clamp0to100(SumSeq(TimingTermsBS(QuestionSet, answers))
                          + SumSeq(OptionTermsBS(QuestionSet, answers)))

(* a chosen option that scores BS, and a BS total that a ratio would change *)
C9_Witness ==
    /\ Returned
    /\ \E i \in 1..Len(answers) :
          /\ Passes(QuestionSet, answers[i])
          /\ "BS" \in DOMAIN ChosenOption(QuestionSet, answers[i]).score
    /\ result.value.skillScores["BS"] > 0
    /\ locals.acc.max_possible_trait_score_base = 30

RawTerms(qs, answer_list) ==
    [i \in 1..Len(answer_list) |->
        IF Passes(qs, answer_list[i])
        THEN SumOver(ChosenOption(qs, answer_list[i]).score)
             + SpecTiming(IntOf(answer_list[i], "timeTakenMs")).adjustment
        ELSE 0]

TraitTerms(qs, answer_list, k) ==
    [i \in 1..Len(answer_list) |->
        IF Passes(qs, answer_list[i])
        THEN At(ChosenOption(qs, answer_list[i]).score, k)
             + SpecTiming(IntOf(answer_list[i], "timeTakenMs"))[k]
        ELSE 0]

ExampleAnswer ==
    ("questionId" :> "q1") @@ ("selectedOptionIndex" :> JInt(0))
        @@ ("timeTakenMs" :> JInt(45000))

(* C10: totalScore is the raw total over 15 x the number of questions of    *)
(* the set, each trait but BS its raw total over 10 x the number of answers *)
(* that matched a question, both clamped to 0..100; one question worth      *)
(* {TA: 10} answered once at 45000 ms gives 100, TA = 100 and BS = 5.       *)
C10_Normalization ==
    Returned =>
        LET matched == Cardinality({i \in 1..Len(answers) :
                                        Matches(QuestionSet, answers[i])})
        IN /\ result.value.totalScore
                = Clamp0to100(PyRoundPct(SumSeq(RawTerms(QuestionSet, answers)),
                                         15 * Len(QuestionSet)))
           /\ \A k \in TraitKeys \ {"BS"} :
                result.value.skillScores[k]
                    = IF matched = 0 THEN 0
                      ELSE Clamp0to100(PyRoundPct(
                               SumSeq(TraitTerms(QuestionSet, answers, k)), 10 * matched))
           /\ (job_key = "ops" /\ answers = <<ExampleAnswer>>) =>
                /\ result.value.totalScore = 100
                /\ result.value.skillScores["TA"] = 100
                /\ result.value.skillScores["BS"] = 5

(* the one-question set answered once at 45000 ms *)
C10_Witness ==
    /\ Returned
    /\ job_key = "ops"
    /\ QuestionSet = <<Q_ops1>>
    /\ answers = <<ExampleAnswer>>
    /\ locals.acc.total_raw_score = 15

----------------------------------------------------------------------------
(* Properties of the handlers, checked under Spec *)

(* the browser shows the assessment page *)
TestPageShown == page # None /\ page.status = 200 /\ "questions" \in DOMAIN page

(* the last request was a submission that reached psychology_predictor *)
Submitted == result # Pending
NotFound == Submitted /\ result.raised = NoExc /\ result.value = None

(* the session's test id maps to a generated test *)
GeneratedTestActive ==
    "test_id" \in DOMAIN session /\ session["test_id"] \in DOMAIN GENERATED_TESTS

(* both handlers resolve the same set from the same session, table and key, *)
(* and the generated test's snapshot whenever the session's test id maps to one *)
SameResolution ==
    \A key \in JobKeys :
        /\ PredictorQuestions(session, GENERATED_TESTS, key)
               = PageQuestions(session, GENERATED_TESTS, key)
        /\ GeneratedTestActive =>
               PredictorQuestions(session, GENERATED_TESTS, key)
                   = PyList(GENERATED_TESTS[session["test_id"]].questions)

(* a scored submission for the job key of the page shown, the generated     *)
(* test of its test id being the one the page was rendered from, was scored *)
(* against the questions of the page                                        *)
ScoredWhatWasShown ==
    (/\ Returned
     /\ TestPageShown
     /\ page.job_key = job_key
     /\ result.value.testId \in DOMAIN GENERATED_TESTS =>
            GENERATED_TESTS[result.value.testId].questions = page.questions)
    => /\ QuestionSet = page.questions
       /\ result.value.testId \in DOMAIN GENERATED_TESTS =>
              QuestionSet = GENERATED_TESTS[result.value.testId].questions

C8_EmptyAnswersScored ==
    /\ (/\ response # None
        /\ response.status # 401
        /\ DOMAIN request = {"jobKey", "answers"}
        /\ request["jobKey"] # ""
        /\ request["answers"] = << >>
        /\ ~Not(PredictorQuestions(session, GENERATED_TESTS, request["jobKey"])))
       => /\ Returned
          /\ result.value.totalScore = 0
          /\ \A k \in TraitKeys : result.value.skillScores[k] = 0
          /\ result.value.detailedResults = << >>
    /\ (response # None /\ response.status = 404) => Not(locals.job_questions)

====
